---- MODULE Spec2Model ----
(***************************************************************************)
(* A model of the Akademia backend: process bootstrap (index, setupDB,     *)
(* setupServer), the Express middleware stack it registers, and the        *)
(* sign-in controller.                                                     *)
(*                                                                         *)
(* Two specifications share the variables:                                 *)
(*   Spec     the life of one process from Application.initialize on:      *)
(*            the synchronous main script, then the event-loop callbacks   *)
(*            (listen, bus connects, database connect / disconnected).     *)
(*   ReqSpec  a started process serving HTTP requests one at a time        *)
(*            through the registered middleware stack.                     *)
(***************************************************************************)
EXTENDS Integers, Sequences, FiniteSets, TLC

VARIABLES
    \* ---- process bootstrap ------------------------------------------
    nodeEnv,        \* config.NODE_ENV
    configOk,       \* whether every required configuration value is present
    mainPc,         \* position of the synchronous main script (Application.initialize)
    exited,         \* the process has terminated
    exitCode,       \* its exit code (meaningful when exited)
    dbState,        \* mongoose connection: idle | connecting | connected
    dbOnDisconnected, \* the 'disconnected' listener is registered
    dbConnects,     \* number of calls of connect() in setupDB so far
    stack,          \* the Express application's middleware stack, in registration order
    httpState,      \* none | listenCalled | listening
    ioAttached,     \* the socket.io Server is attached to the http server
    pubClient,      \* none | connecting | connected | failed
    subClient,      \* none | connecting | connected | failed
    adapterInstalled, \* io.adapter(createAdapter(pubClient, subClient)) has run
    startServerPc,  \* notStarted | awaiting | done | caught
    clients,        \* client connections accepted by the listening server
    \* ---- one HTTP request -------------------------------------------
    req,            \* the request being served
    idx,            \* index in stack of the layer the request is at (0: no request)
    reqSession,     \* req.session
    err,            \* the error being propagated by next(err)
    resp,           \* the response
    trace,          \* the pipeline events of this request, in order
    logged,         \* the error log.error(error) wrote in the global error handler
    signin          \* the locals of SignIn.read for this request

bootVars == <<nodeEnv, configOk, mainPc, exited, exitCode, dbState, dbOnDisconnected,
              dbConnects, stack, httpState, ioAttached, pubClient, subClient,
              adapterInstalled, startServerPc, clients>>
reqVars == <<req, idx, reqSession, err, resp, trace, logged, signin>>
vars == <<bootVars, reqVars>>

(***************************************************************************)
(* Bounds of the model.                                                    *)
(***************************************************************************)
\* connect() calls of setupDB that are followed (the reconnect loop itself is unbounded)
MaxConnects == 3
\* client connections that are followed
MaxClients == 2

(***************************************************************************)
(* Program constants.                                                      *)
(***************************************************************************)
NOT_FOUND == 404
CREATED == 201
BAD_REQUEST == 400
UNAUTHORIZED == 401
\* process.exit(1) in setupDB; also node's exit code for an uncaught exception
EXIT_FAILURE == 1

NodeEnvs == {"development", "production", "test", "undefined"}

(***************************************************************************)
(* The middleware stack registered by AkademiaServer.start.                *)
(* A layer is [name, mount, errorLayer]: Express runs a layer for a        *)
(* request whose path starts with mount; an errorLayer (a four-argument    *)
(* handler) runs only while an error is being propagated, every other      *)
(* layer only while none is.                                               *)
(***************************************************************************)
Layer(name, mount) == [name |-> name, mount |-> mount, errorLayer |-> FALSE]
ErrorLayer(name) == [name |-> name, mount |-> "", errorLayer |-> TRUE]

BASE_PATH == "/api/v1"

\* cookieSession({ name, keys, maxAge, secure })
CookieSessionOptions(env) ==
    [name |-> "session", maxAge |-> 24 * 7 * 3600, secure |-> (env # "development")]

\* cookie-session hands maxAge to the cookies module, which reads it as
\* milliseconds from now: the lifetime of the cookie in whole seconds.
CookieLifetimeSeconds(opts) == opts.maxAge \div 1000

SecurityMiddleware ==
    << Layer("cookieSession", ""), Layer("hpp", ""), Layer("helmet", ""), Layer("cors", "") >>

StandardMiddleware ==
    << Layer("compression", ""), Layer("json", ""), Layer("urlencoded", "") >>

\* routes() with verifyUser mounted on BASE_PATH ahead of the auth routers
RoutesGateFirst ==
    << Layer("queues", "/queues"),
       Layer("verifyUser", BASE_PATH),
       Layer("authRoutes", BASE_PATH),
       Layer("signoutRoutes", BASE_PATH),
       Layer("currentUserRoutes", BASE_PATH) >>

\* routes() with verifyUser passed to app.use after the router it is to guard
RoutesGateAfter ==
    << Layer("queues", "/queues"),
       Layer("authRoutes", BASE_PATH),
       Layer("signoutRoutes", BASE_PATH),
       Layer("currentUserRoutes", BASE_PATH),
       Layer("verifyUser", BASE_PATH) >>

Routes ==
    << Layer("queues", "/queues"),
       Layer("authRoutes", BASE_PATH),
       Layer("signoutRoutes", BASE_PATH),
       Layer("verifyUser", BASE_PATH),
       Layer("currentUserRoutes", BASE_PATH) >>

RouteMiddleware == Routes

GlobalErrorHandler ==
    << Layer("notFound", ""), ErrorLayer("errorHandler") >>

\* start() with standardMiddleware called before securityMiddleware
AppStackBodyFirst ==
    StandardMiddleware \o SecurityMiddleware \o RouteMiddleware \o GlobalErrorHandler

\* start(): security, standard, routes, global error handler, in this order
AppStack == SecurityMiddleware \o StandardMiddleware \o RouteMiddleware \o GlobalErrorHandler

(***************************************************************************)
(* The synchronous main script: Application.initialize.                    *)
(***************************************************************************)
\* initialize() with databaseConnection() called before this.loadConfig()
InitializeOrderDbFirst == <<"databaseConnection", "loadConfig", "construct", "start">>

\* the statements of initialize(), in order: this.loadConfig(); databaseConnection();
\* express() and new AkademiaServer(app); server.start()
InitializeOrder == <<"loadConfig", "databaseConnection", "construct", "start">>

\* the statement of initialize() that follows statement step
AfterStep(step) ==
    LET i == CHOOSE k \in DOMAIN InitializeOrder : InitializeOrder[k] = step
    IN  IF i < Len(InitializeOrder) THEN InitializeOrder[i + 1] ELSE "returned"

\* an exception nobody catches ends the process with exit code 1
Crash ==
    /\ exited' = TRUE
    /\ exitCode' = EXIT_FAILURE

\* config.validateConfig(): throws when a required value is missing
ValidateConfigPasses == configOk

\* this.loadConfig()
LoadConfig ==
    /\ mainPc = "loadConfig" /\ ~exited
    /\ IF ValidateConfigPasses
          THEN mainPc' = AfterStep("loadConfig") /\ UNCHANGED <<exited, exitCode>>
          ELSE mainPc' = "crashed" /\ Crash
    /\ UNCHANGED <<nodeEnv, configOk, dbState, dbOnDisconnected, dbConnects, stack,
                   httpState, ioAttached, pubClient, subClient, adapterInstalled,
                   startServerPc, clients, reqVars>>

\* setupDB connect(): mongoose.connect(...) is started; its outcome arrives later
Connect ==
    /\ dbState' = "connecting"
    /\ dbConnects' = dbConnects + 1

\* databaseConnection(): connect(), then mongoose.connection.on('disconnected', connect)
DatabaseConnection ==
    /\ mainPc = "databaseConnection" /\ ~exited
    /\ Connect
    /\ dbOnDisconnected' = TRUE
    /\ mainPc' = AfterStep("databaseConnection")
    /\ UNCHANGED <<nodeEnv, configOk, exited, exitCode, stack, httpState, ioAttached,
                   pubClient, subClient, adapterInstalled, startServerPc, clients, reqVars>>

\* express(); new AkademiaServer(app)
Construct ==
    /\ mainPc = "construct" /\ ~exited
    /\ mainPc' = AfterStep("construct")
    /\ UNCHANGED <<nodeEnv, configOk, exited, exitCode, dbState, dbOnDisconnected,
                   dbConnects, stack, httpState, ioAttached, pubClient, subClient,
                   adapterInstalled, startServerPc, clients, reqVars>>

\* server.start(), up to the call of startServer: the middleware is registered
Start ==
    /\ mainPc = "start" /\ ~exited
    /\ stack' = AppStack
    /\ mainPc' = "startServer"
    /\ UNCHANGED <<nodeEnv, configOk, exited, exitCode, dbState, dbOnDisconnected,
                   dbConnects, httpState, ioAttached, pubClient, subClient,
                   adapterInstalled, startServerPc, clients, reqVars>>

\* startServer up to its await: new http.Server, startHttpServer (listen is called),
\* then createSocketIO up to its await: new Server(httpServer), createClient,
\* duplicate, pubClient.connect() and subClient.connect() are started
StartServer ==
    /\ mainPc = "startServer" /\ ~exited
    /\ httpState' = "listenCalled"
    /\ ioAttached' = TRUE
    /\ pubClient' = "connecting"
    /\ subClient' = "connecting"
    /\ startServerPc' = "awaiting"
    /\ mainPc' = "idle"
    /\ UNCHANGED <<nodeEnv, configOk, exited, exitCode, dbState, dbOnDisconnected,
                   dbConnects, stack, adapterInstalled, clients, reqVars>>

(***************************************************************************)
(* Event-loop callbacks: they run once the main script has returned.       *)
(***************************************************************************)
Running == mainPc = "idle" /\ ~exited

\* httpServer.listen's callback: the port is bound
HttpListening ==
    /\ Running /\ httpState = "listenCalled"
    /\ httpState' = "listening"
    /\ UNCHANGED <<nodeEnv, configOk, mainPc, exited, exitCode, dbState, dbOnDisconnected,
                   dbConnects, stack, ioAttached, pubClient, subClient, adapterInstalled,
                   startServerPc, clients, reqVars>>

\* await Promise.all([pubClient.connect(), subClient.connect()]) in createSocketIO,
\* and what startServer does with its outcome: where startServer stands once the
\* clients are in states pub and sub.  A rejection lands in startServer's catch,
\* which logs the error and returns.
PromiseAllSettled(pub, sub, pc) ==
    IF pc # "awaiting" THEN pc
    ELSE IF pub = "failed" \/ sub = "failed" THEN "caught"
    ELSE IF pub = "connected" /\ sub = "connected" THEN "done"
    ELSE "awaiting"

\* io.adapter(createAdapter(pubClient, subClient)) runs when the await returns
AdapterAfter(pc, pcNext) == adapterInstalled \/ (pc = "awaiting" /\ pcNext = "done")

PubConnectSettled(ok) ==
    /\ Running /\ pubClient = "connecting"
    /\ pubClient' = IF ok THEN "connected" ELSE "failed"
    /\ startServerPc' = PromiseAllSettled(pubClient', subClient, startServerPc)
    /\ adapterInstalled' = AdapterAfter(startServerPc, startServerPc')
    /\ UNCHANGED <<nodeEnv, configOk, mainPc, exited, exitCode, dbState, dbOnDisconnected,
                   dbConnects, stack, httpState, ioAttached, subClient, clients, reqVars>>

SubConnectSettled(ok) ==
    /\ Running /\ subClient = "connecting"
    /\ subClient' = IF ok THEN "connected" ELSE "failed"
    /\ startServerPc' = PromiseAllSettled(pubClient, subClient', startServerPc)
    /\ adapterInstalled' = AdapterAfter(startServerPc, startServerPc')
    /\ UNCHANGED <<nodeEnv, configOk, mainPc, exited, exitCode, dbState, dbOnDisconnected,
                   dbConnects, stack, httpState, ioAttached, pubClient, clients, reqVars>>

\* the .then / .catch of mongoose.connect in setupDB's connect
DbConnectSettled(ok) ==
    /\ Running /\ dbState = "connecting"
    /\ IF ok
          THEN dbState' = "connected" /\ UNCHANGED <<exited, exitCode>>
          ELSE dbState' = "failed" /\ exited' = TRUE /\ exitCode' = EXIT_FAILURE
    /\ UNCHANGED <<nodeEnv, configOk, mainPc, dbOnDisconnected, dbConnects, stack,
                   httpState, ioAttached, pubClient, subClient, adapterInstalled,
                   startServerPc, clients, reqVars>>

\* mongoose.connection emits 'disconnected': the listener is connect
DbDisconnected ==
    /\ Running /\ dbState = "connected" /\ dbOnDisconnected
    /\ dbConnects < MaxConnects
    /\ Connect
    /\ UNCHANGED <<nodeEnv, configOk, mainPc, exited, exitCode, dbOnDisconnected, stack,
                   httpState, ioAttached, pubClient, subClient, adapterInstalled,
                   startServerPc, clients, reqVars>>

\* a client connects to the listening server (HTTP, or the socket.io transport
\* attached to it)
AcceptClient ==
    /\ Running /\ httpState = "listening"
    /\ clients < MaxClients
    /\ clients' = clients + 1
    /\ UNCHANGED <<nodeEnv, configOk, mainPc, exited, exitCode, dbState, dbOnDisconnected,
                   dbConnects, stack, httpState, ioAttached, pubClient, subClient,
                   adapterInstalled, startServerPc, reqVars>>


(***************************************************************************)
(* Data of the request pipeline.  Every record keeps one shape; an absent  *)
(* value (undefined, null) is the empty string.                            *)
(***************************************************************************)
Absent == ""

AuthFields == {"_id", "uId", "username", "email", "avatarColor", "createdAt"}
UserFields == {"_id", "authId", "uId", "username", "email", "avatarColor", "createdAt", "quote"}

\* what authService.getAuthUserByUsername can return: null, or a stored auth record
NullAuth == [k \in AuthFields |-> Absent]
AuthDocs ==
    { [_id |-> "a1", uId |-> "u1", username |-> "alice", email |-> "alice@x",
       avatarColor |-> "red", createdAt |-> "t1"],
      [_id |-> "a2", uId |-> "u2", username |-> "bob", email |-> "bob@x",
       avatarColor |-> "blue", createdAt |-> "t2"] }

\* what userService.getUserByAuthId can return: null, a document without the auth
\* fields, or a document that carries its own (here: different) copies of them
NullUser == [k \in UserFields |-> Absent]
UserDocs ==
    { NullUser,
      [_id |-> "d1", authId |-> Absent, uId |-> Absent, username |-> Absent,
       email |-> Absent, avatarColor |-> Absent, createdAt |-> Absent, quote |-> "q1"],
      [_id |-> "d2", authId |-> "a9", uId |-> "u9", username |-> "carol",
       email |-> "carol@x", avatarColor |-> "green", createdAt |-> "t9", quote |-> "q2"] }

TokenFields == {"userId", "uId", "email", "username", "avatarColor", "key"}
NoToken == [k \in TokenFields |-> Absent]
\* a token a client presents in a valid session cookie
ValidToken ==
    [userId |-> "a1", uId |-> "u1", email |-> "alice@x", username |-> "alice",
     avatarColor |-> "red", key |-> "JWT_TOKEN"]

NoErr == [kind |-> "none", status |-> 0, message |-> <<>>]
NoCookie == [set |-> FALSE, name |-> Absent, value |-> NoToken, maxAge |-> 0, secure |-> FALSE]
NoResp == [sent |-> FALSE, status |-> 0, message |-> <<>>, user |-> NullUser,
           token |-> NoToken, cookie |-> NoCookie]
NoSession == [state |-> "none", jwt |-> NoToken]
NoSignin == [ran |-> FALSE, existingUser |-> NullAuth, passwordsMatch |-> FALSE,
             readUser |-> NullUser]

\* the HTTP surface: mount path and route below it
Paths ==
    { [mount |-> "/queues", route |-> Absent],
      [mount |-> BASE_PATH, route |-> "signin"],
      [mount |-> BASE_PATH, route |-> "signout"],
      [mount |-> BASE_PATH, route |-> "currentuser"],
      [mount |-> BASE_PATH, route |-> "nope"],
      [mount |-> "/other", route |-> Absent] }
\* the paths some router registers a route for
RegisteredPaths == { p \in Paths : p.mount = "/queues" \/ p.route \in {"signin", "signout", "currentuser"} }

\* session cookie of a request: none, one that does not verify, one that does
Cookies == {"none", "invalid", "valid"}
\* body of a request: none, JSON or form data within the limit, JSON that does not
\* parse, or JSON or form data over the limit
Bodies == {"none", "json", "form", "badJson", "bigJson", "bigForm"}
Requests == [path : Paths, cookie : Cookies, body : Bodies]
NoReq == [path |-> [mount |-> Absent, route |-> Absent], cookie |-> "none", body |-> "none"]

\* how a business handler outside this source ends: it responds, throws one of
\* the typed errors (a CustomError), or throws anything else
Outcomes == {"ok", "custom", "other"}

OriginalUrl(path) == <<path.mount, path.route>>

(***************************************************************************)
(* Express dispatch.                                                       *)
(***************************************************************************)
LayerRuns(layer, path, hasErr) ==
    /\ layer.mount = "" \/ layer.mount = path.mount
    /\ layer.errorLayer = hasErr

\* next() / next(err): the index of the next layer of st after i that runs for
\* this path; Len(st) + 1 is Express's final handler
NextLayer(st, i, path, hasErr) ==
    LET c == { j \in (i + 1)..Len(st) : LayerRuns(st[j], path, hasErr) }
    IN  IF c = {} THEN Len(st) + 1 ELSE CHOOSE j \in c : \A k \in c : j <= k

Cur ==
    IF idx \in 1..Len(stack) THEN stack[idx].name
    ELSE IF idx = Len(stack) + 1 THEN "finalHandler"
    ELSE "none"

InFlight == Running /\ httpState = "listening" /\ idx > 0

\* the Set-Cookie cookie-session writes with the response when req.session was
\* assigned: the value with the configured options, or, for null, an empty
\* cookie that has already expired
SetCookie(session, opts) ==
    IF session.state = "set"
    THEN [set |-> TRUE, name |-> opts.name, value |-> session.jwt,
          maxAge |-> opts.maxAge, secure |-> opts.secure]
    ELSE IF session.state = "cleared"
    THEN [set |-> TRUE, name |-> opts.name, value |-> NoToken,
          maxAge |-> 0, secure |-> opts.secure]
    ELSE NoCookie

\* res.status(status).json(...): the response is sent and the request is over
Respond(status, message, user, token, session) ==
    /\ resp' = [sent |-> TRUE, status |-> status, message |-> message, user |-> user,
                token |-> token, cookie |-> SetCookie(session, CookieSessionOptions(nodeEnv))]
    /\ idx' = 0

\* next()
Next_(hasErr) == idx' = NextLayer(stack, idx, req.path, hasErr)

\* a handler throws e: express (express-async-errors for async handlers) calls next(e)
Throw(e) ==
    /\ err' = e
    /\ Next_(TRUE)

CustomError(status, message) == [kind |-> "custom", status |-> status, message |-> message]
OtherError(status) == [kind |-> "other", status |-> status, message |-> <<"internal detail">>]
BadReqestError(message) == CustomError(BAD_REQUEST, message)
NotAuthorizedError(message) == CustomError(UNAUTHORIZED, message)


(***************************************************************************)
(* SignIn.read                                                             *)
(***************************************************************************)
\* JWT.sign(payload, config.JWT_TOKEN)
JwtSign(payload, key) == [k \in TokenFields |-> IF k = "key" THEN key ELSE payload[k]]

\* { ...base, k1: v1, ... }: the keys written after the spread replace the spread's
Spread(base, over) == [k \in DOMAIN base |-> IF k \in DOMAIN over THEN over[k] ELSE base[k]]

\* { k1: v1, ..., ...base }: the spread's own keys replace the ones written before
SpreadLast(over, base) ==
    [k \in DOMAIN base |-> IF base[k] # Absent \/ k \notin DOMAIN over THEN base[k] ELSE over[k]]

\* the userDocument with ...readUser written last
UserDocumentSpreadLast(readUser, existingUser) ==
    SpreadLast([authId |-> existingUser._id, username |-> existingUser.username,
                email |-> existingUser.email, avatarColor |-> existingUser.avatarColor,
                uId |-> existingUser.uId, createdAt |-> existingUser.createdAt],
               readUser)

\* the userDocument of the response: { ...readUser, authId, username, email,
\* avatarColor, uId, createdAt } with the values of existingUser
UserDocument(readUser, existingUser) ==
    Spread(readUser,
           [authId |-> existingUser._id, username |-> existingUser.username,
            email |-> existingUser.email, avatarColor |-> existingUser.avatarColor,
            uId |-> existingUser.uId, createdAt |-> existingUser.createdAt])

\* SignIn.read without the check of passwordsMatch
SignInReadNoCompare(existingUser, passwordsMatch, readUser) ==
    LET userJwt == JwtSign([userId |-> existingUser._id, uId |-> existingUser.uId,
                            email |-> existingUser.email,
                            username |-> existingUser.username,
                            avatarColor |-> existingUser.avatarColor], "JWT_TOKEN")
    IN  IF existingUser = NullAuth
        THEN [threw |-> TRUE, error |-> BadReqestError(<<"Invalid credentials">>),
              session |-> NoSession, status |-> 0, message |-> <<>>,
              user |-> NullUser, token |-> NoToken]
        ELSE [threw |-> FALSE, error |-> NoErr,
              session |-> [state |-> "set", jwt |-> userJwt],
              status |-> CREATED, message |-> <<"User logged in successfully">>,
              user |-> UserDocument(readUser, existingUser), token |-> userJwt]

\* SignIn.read with an error message of its own for each of the two failures
SignInReadTwoMessages(existingUser, passwordsMatch, readUser) ==
    LET failed(e) == [threw |-> TRUE, error |-> e, session |-> NoSession, status |-> 0,
                      message |-> <<>>, user |-> NullUser, token |-> NoToken]
        userJwt == JwtSign([userId |-> existingUser._id, uId |-> existingUser.uId,
                            email |-> existingUser.email,
                            username |-> existingUser.username,
                            avatarColor |-> existingUser.avatarColor], "JWT_TOKEN")
    IN  IF existingUser = NullAuth
        THEN failed(BadReqestError(<<"User not found">>))
        ELSE IF ~passwordsMatch
        THEN failed(BadReqestError(<<"Invalid password">>))
        ELSE [threw |-> FALSE, error |-> NoErr,
              session |-> [state |-> "set", jwt |-> userJwt],
              status |-> CREATED, message |-> <<"User logged in successfully">>,
              user |-> UserDocument(readUser, existingUser), token |-> userJwt]

\* the body of SignIn.read, given what its three lookups return
SignInRead(existingUser, passwordsMatch, readUser) ==
    LET failed(e) == [threw |-> TRUE, error |-> e, session |-> NoSession, status |-> 0,
                      message |-> <<>>, user |-> NullUser, token |-> NoToken]
        userJwt == JwtSign([userId |-> existingUser._id, uId |-> existingUser.uId,
                            email |-> existingUser.email,
                            username |-> existingUser.username,
                            avatarColor |-> existingUser.avatarColor], "JWT_TOKEN")
    IN  IF existingUser = NullAuth
        THEN failed(BadReqestError(<<"Invalid credentials">>))
        ELSE IF ~passwordsMatch
        THEN failed(BadReqestError(<<"Invalid credentials">>))
        ELSE [threw |-> FALSE, error |-> NoErr,
              session |-> [state |-> "set", jwt |-> userJwt],
              status |-> CREATED, message |-> <<"User logged in successfully">>,
              user |-> UserDocument(readUser, existingUser), token |-> userJwt]

(***************************************************************************)
(* One HTTP request through the stack.                                     *)
(***************************************************************************)
\* a request arrives at the listening server and enters the first layer
Arrive(r) ==
    /\ Running /\ httpState = "listening" /\ idx = 0
    /\ req' = r
    /\ idx' = NextLayer(stack, 0, r.path, FALSE)
    /\ reqSession' = NoSession
    /\ err' = NoErr
    /\ resp' = NoResp
    /\ trace' = <<>>
    /\ logged' = NoErr
    /\ signin' = NoSignin
    /\ UNCHANGED bootVars

\* cookieSession: req.session is read from the request's cookie
CookieSession ==
    /\ InFlight /\ Cur = "cookieSession"
    /\ reqSession' = [state |-> req.cookie,
                      jwt |-> IF req.cookie = "valid" THEN ValidToken ELSE NoToken]
    /\ trace' = Append(trace, "cookieSession")
    /\ Next_(FALSE)
    /\ UNCHANGED <<bootVars, req, err, resp, logged, signin>>

\* hpp, helmet, cors({ origin: '*' }), compression: none of them ends a request
SecurityFilter ==
    /\ InFlight /\ Cur \in {"hpp", "helmet", "cors", "compression"}
    /\ trace' = Append(trace, Cur)
    /\ Next_(FALSE)
    /\ UNCHANGED <<bootVars, req, reqSession, err, resp, logged, signin>>

\* json({ limit: '50mb' }) and urlencoded({ extended: true, limit: '50mb' }): a
\* parser reads a body of its own content type, refuses one over the limit with a
\* PayloadTooLargeError before parsing it and one that does not parse with a
\* SyntaxError, and passes every other request on
BodyParser ==
    /\ InFlight /\ Cur \in {"json", "urlencoded"}
    /\ LET mine == IF Cur = "json" THEN {"json", "badJson", "bigJson"}
                                     ELSE {"form", "bigForm"}
       IN  IF req.body \notin mine
           THEN /\ trace' = Append(trace, Cur)
                /\ Next_(FALSE)
                /\ UNCHANGED err
           ELSE IF req.body \in {"bigJson", "bigForm"}
           THEN /\ trace' = trace \o <<Cur, "limit">>
                /\ Throw(OtherError(413))
           ELSE IF req.body = "badJson"
           THEN /\ trace' = trace \o <<Cur, "limit", "parse">>
                /\ Throw(OtherError(400))
           ELSE /\ trace' = trace \o <<Cur, "limit", "parse">>
                /\ Next_(FALSE)
                /\ UNCHANGED err
    /\ UNCHANGED <<bootVars, req, reqSession, resp, logged, signin>>

\* a business handler outside this source runs and ends in one of Outcomes
Handle(name, o) ==
    /\ trace' = Append(trace, name)
    /\ CASE o = "ok" -> /\ Respond(200, <<"ok">>, NullUser, NoToken, reqSession)
                        /\ UNCHANGED err
         [] o = "custom" -> /\ Throw(CustomError(409, <<"conflict">>))
                            /\ UNCHANGED resp
         [] OTHER -> /\ Throw(OtherError(0))
                     /\ UNCHANGED resp

\* app.use('/queues', serverAdapter.getRouter())
QueuesRouter(o) ==
    /\ InFlight /\ Cur = "queues"
    /\ Handle("handler:queues", o)
    /\ UNCHANGED <<bootVars, req, reqSession, logged, signin>>

\* app.use(BASE_PATH, authRoutes.routes()): the sign-in route runs SignIn.read
\* behind its joiValidation decorator; any other path falls through
AuthRoutes(valid, existingUser, passwordsMatch, readUser) ==
    /\ InFlight /\ Cur = "authRoutes"
    /\ IF req.path.route # "signin"
       THEN /\ Next_(FALSE)
            /\ UNCHANGED <<trace, err, resp, reqSession, signin>>
       ELSE IF ~valid
       THEN /\ trace' = Append(trace, "joiValidation")
            /\ Throw(BadReqestError(<<"validation">>))
            /\ UNCHANGED <<resp, reqSession, signin>>
       ELSE LET out == SignInRead(existingUser, passwordsMatch, readUser)
            IN  /\ trace' = trace \o <<"joiValidation", "handler:signin">>
                /\ signin' = [ran |-> TRUE, existingUser |-> existingUser,
                              passwordsMatch |-> passwordsMatch, readUser |-> readUser]
                /\ IF out.threw
                   THEN /\ Throw(out.error)
                        /\ UNCHANGED <<resp, reqSession>>
                   ELSE /\ reqSession' = out.session
                        /\ Respond(out.status, out.message, out.user, out.token, out.session)
                        /\ UNCHANGED err
    /\ UNCHANGED <<bootVars, req, logged>>

\* app.use(BASE_PATH, authRoutes.signoutRoutes()): sign-out clears the session
SignoutRoutes ==
    /\ InFlight /\ Cur = "signoutRoutes"
    /\ IF req.path.route # "signout"
       THEN /\ Next_(FALSE)
            /\ UNCHANGED <<trace, resp, reqSession>>
       ELSE /\ trace' = Append(trace, "handler:signout")
            /\ reqSession' = [state |-> "cleared", jwt |-> NoToken]
            /\ Respond(200, <<"Logout successful">>, NullUser, NoToken, reqSession')
    /\ UNCHANGED <<bootVars, req, err, logged, signin>>

\* authMiddleWare.verifyUser: a request without a session that verifies is
\* refused with NotAuthorizedError, one with it is passed on
VerifyUser ==
    /\ InFlight /\ Cur = "verifyUser"
    /\ IF reqSession.state = "valid"
       THEN /\ trace' = Append(trace, "verifyUser:accept")
            /\ Next_(FALSE)
            /\ UNCHANGED err
       ELSE /\ trace' = Append(trace, "verifyUser:reject")
            /\ Throw(NotAuthorizedError(<<"Token is not available. Please login again.">>))
    /\ UNCHANGED <<bootVars, req, reqSession, resp, logged, signin>>

\* currentUserRoutes.routes(), third argument of the same app.use
CurrentUserRoutes(o) ==
    /\ InFlight /\ Cur = "currentUserRoutes"
    /\ IF req.path.route # "currentuser"
       THEN /\ Next_(FALSE)
            /\ UNCHANGED <<trace, err, resp>>
       ELSE Handle("handler:currentuser", o)
    /\ UNCHANGED <<bootVars, req, reqSession, logged, signin>>

\* app.all('*', ...): 404, `${req.originalUrl} not found`
NotFoundMessage(path) == OriginalUrl(path) \o <<" not found">>

NotFoundHandler ==
    /\ InFlight /\ Cur = "notFound"
    /\ trace' = Append(trace, "notFound")
    /\ Respond(NOT_FOUND, NotFoundMessage(req.path), NullUser, NoToken, reqSession)
    /\ UNCHANGED <<bootVars, req, reqSession, err, logged, signin>>

\* app.use((error, req, res, next) => ...): a CustomError is answered with its
\* status code and serializeErrors(); for anything else next() is called, without
\* the error
ErrorHandler ==
    /\ InFlight /\ Cur = "errorHandler"
    /\ trace' = Append(trace, "errorHandler")
    /\ logged' = err
    /\ IF err.kind = "custom"
       THEN /\ Respond(err.status, err.message, NullUser, NoToken, reqSession)
            /\ UNCHANGED err
       ELSE /\ err' = NoErr
            /\ Next_(FALSE)
            /\ UNCHANGED resp
    /\ UNCHANGED <<bootVars, req, reqSession, signin>>

\* the end of the stack: Express's final handler answers 404 "Cannot <method>
\* <path>" when no error is left, and the error's own 4xx/5xx status or 500 when
\* one is
FinalHandler ==
    /\ InFlight /\ Cur = "finalHandler"
    /\ trace' = Append(trace, "finalHandler")
    /\ IF err.kind = "none"
       THEN Respond(NOT_FOUND, <<"Cannot ">> \o OriginalUrl(req.path), NullUser, NoToken, reqSession)
       ELSE Respond(IF err.status >= 400 THEN err.status ELSE 500, <<"error">>,
                    NullUser, NoToken, reqSession)
    /\ UNCHANGED <<bootVars, req, reqSession, err, logged, signin>>


(***************************************************************************)
(* Specifications.                                                         *)
(***************************************************************************)
ReqIdle ==
    /\ req = NoReq /\ idx = 0 /\ reqSession = NoSession /\ err = NoErr
    /\ resp = NoResp /\ trace = <<>> /\ logged = NoErr /\ signin = NoSignin

\* node starts the main script
Init ==
    /\ nodeEnv \in NodeEnvs
    /\ configOk \in BOOLEAN
    /\ mainPc = InitializeOrder[1]
    /\ exited = FALSE /\ exitCode = 0
    /\ dbState = "idle" /\ dbOnDisconnected = FALSE /\ dbConnects = 0
    /\ stack = <<>>
    /\ httpState = "none" /\ ioAttached = FALSE
    /\ pubClient = "none" /\ subClient = "none"
    /\ adapterInstalled = FALSE /\ startServerPc = "notStarted"
    /\ clients = 0
    /\ ReqIdle

Next ==
    \/ LoadConfig
    \/ DatabaseConnection
    \/ Construct
    \/ Start
    \/ StartServer
    \/ HttpListening
    \/ \E ok \in BOOLEAN : PubConnectSettled(ok)
    \/ \E ok \in BOOLEAN : SubConnectSettled(ok)
    \/ \E ok \in BOOLEAN : DbConnectSettled(ok)
    \/ DbDisconnected
    \/ AcceptClient

Spec == Init /\ [][Next]_vars

\* a process whose startup went through: the main script has returned, the
\* database and both bus clients are connected, the server is listening
ReqInit ==
    /\ nodeEnv \in NodeEnvs
    /\ configOk = TRUE
    /\ mainPc = "idle"
    /\ exited = FALSE /\ exitCode = 0
    /\ dbState = "connected" /\ dbOnDisconnected = TRUE /\ dbConnects = 1
    /\ stack = AppStack
    /\ httpState = "listening" /\ ioAttached = TRUE
    /\ pubClient = "connected" /\ subClient = "connected"
    /\ adapterInstalled = TRUE /\ startServerPc = "done"
    /\ clients = 0
    /\ ReqIdle

ReqNext ==
    \/ \E r \in Requests : Arrive(r)
    \/ CookieSession
    \/ SecurityFilter
    \/ BodyParser
    \/ \E o \in Outcomes : QueuesRouter(o)
    \/ \E valid, match \in BOOLEAN, a \in AuthDocs \cup {NullAuth}, u \in UserDocs :
          AuthRoutes(valid, a, match, u)
    \/ SignoutRoutes
    \/ VerifyUser
    \/ \E o \in Outcomes : CurrentUserRoutes(o)
    \/ NotFoundHandler
    \/ ErrorHandler
    \/ FinalHandler

ReqSpec == ReqInit /\ [][ReqNext]_vars


(***************************************************************************)
(* Properties.                                                             *)
(***************************************************************************)
Events == { trace[i] : i \in DOMAIN trace }
Before(i) == { trace[k] : k \in 1..(i - 1) }
CurrentUserPath == [mount |-> BASE_PATH, route |-> "currentuser"]
BodyRefused == req.body \in {"badJson", "bigJson", "bigForm"}

\* C1: while the server is listening, both bus clients are connected and the
\* adapter is installed.
C1_ListeningOnlyAfterBus ==
    (httpState = "listening" /\ ~exited)
        => (pubClient = "connected" /\ subClient = "connected" /\ adapterInstalled)

\* C2: once a bus client's connect has failed during startup, the process has
\* exited with a non-zero code: it is never listening, still running, after
\* such a failure.
C2_BusFailureIsFatal ==
    ((pubClient = "failed" \/ subClient = "failed") /\ httpState = "listening")
        => (exited /\ exitCode # 0)

\* C3: once startup has succeeded and the reconnect loop has begun (connect has
\* been called again from the 'disconnected' listener), the process does not exit.
C3_NoExitAfterStartup ==
    (startServerPc = "done" /\ httpState = "listening" /\ dbConnects > 1) => ~exited

\* The pipeline stage an event of the trace belongs to: 1 security filters,
\* 2 body decoding, 3 authentication gate, 4 business dispatch, 5 error
\* normalization.
Stage(e) ==
    CASE e \in {"cookieSession", "hpp", "helmet", "cors", "compression"} -> 1
      [] e \in {"json", "urlencoded", "limit", "parse"} -> 2
      [] e \in {"verifyUser:accept", "verifyUser:reject"} -> 3
      [] e \in {"joiValidation", "handler:queues", "handler:signin", "handler:signout",
                "handler:currentuser"} -> 4
      [] OTHER -> 5

\* C5: in every request the stages that run do so in the order security filters,
\* body decoding, authentication gate, business dispatch, error normalization,
\* and a body is parsed only after its size was checked and after cookieSession,
\* hpp, helmet, cors and compression have all run.
C5_StageOrder ==
    /\ \A i, j \in DOMAIN trace : i < j => Stage(trace[i]) <= Stage(trace[j])
    /\ \A i \in DOMAIN trace :
          trace[i] = "parse" =>
              {"cookieSession", "hpp", "helmet", "cors", "compression", "limit"} \subseteq Before(i)

\* a request that went through body parsing, the gate, its handler and the error
\* boundary
C5_Witness ==
    /\ resp.sent
    /\ {"parse", "verifyUser:accept", "handler:currentuser", "errorHandler"} \subseteq Events

\* C6: an error that reached the global error handler is answered with its own
\* status code and message when it is a CustomError, and with 500 and a generic
\* message when it is anything else.
C6_ErrorBoundary ==
    (resp.sent /\ logged.kind # "none") =>
        IF logged.kind = "custom"
        THEN resp.status = logged.status /\ resp.message = logged.message
        ELSE resp.status = 500 /\ resp.message # logged.message

\* C7: a request (without a body) whose path no router registers is answered 404
\* with the message "<path> not found", whatever its prefix and session.
C7_UnmatchedIs404 ==
    (resp.sent /\ req.path \notin RegisteredPaths /\ req.body = "none")
        => (resp.status = NOT_FOUND /\ resp.message = NotFoundMessage(req.path))

\* C8 as stated: every request to the current-session route without a valid
\* session is answered 401 by the authentication gate, and its handler never runs.
C8_Original ==
    (resp.sent /\ req.path = CurrentUserPath /\ req.cookie # "valid")
        => /\ resp.status = UNAUTHORIZED
           /\ "verifyUser:reject" \in Events
           /\ "handler:currentuser" \notin Events

\* C8, amended: the current-session handler runs only after verifyUser accepted
\* the request, so never for a request without a valid session; and such a
\* request is answered 401 by the gate unless a body parser refused its body
\* before the gate was reached.
C8_AuthGate ==
    /\ \A i \in DOMAIN trace :
          trace[i] = "handler:currentuser" => "verifyUser:accept" \in Before(i)
    /\ (req.path = CurrentUserPath /\ req.cookie # "valid")
          => "handler:currentuser" \notin Events
    /\ (resp.sent /\ req.path = CurrentUserPath /\ req.cookie # "valid" /\ ~BodyRefused)
          => (resp.status = UNAUTHORIZED /\ "verifyUser:reject" \in Events)

\* a request without session cookie to the current-session route was answered 401
C8_Witness ==
    /\ resp.sent /\ req.path = CurrentUserPath /\ req.cookie = "none"
    /\ resp.status = UNAUTHORIZED
    /\ "verifyUser:reject" \in Events

\* C9: when SignIn.read found the user and the password matched, the response is
\* 201, req.session holds the token signed with JWT_TOKEN (and the session
\* cookie is written with it), and the returned user's username, avatarColor, uId
\* and authId are those of the auth record, also where the user document loaded
\* by getUserByAuthId has other values for them.
C9_SignInSuccess ==
    (signin.ran /\ signin.existingUser # NullAuth /\ signin.passwordsMatch) =>
        /\ resp.sent /\ resp.status = CREATED
        /\ reqSession.state = "set"
        /\ reqSession.jwt = resp.token
        /\ resp.token.key = "JWT_TOKEN"
        /\ resp.token.username = signin.existingUser.username
        /\ resp.cookie.set /\ resp.cookie.value = resp.token
        /\ resp.user.username = signin.existingUser.username
        /\ resp.user.avatarColor = signin.existingUser.avatarColor
        /\ resp.user.uId = signin.existingUser.uId
        /\ resp.user.authId = signin.existingUser._id

\* a successful sign-in whose user document carried other values
C9_Witness ==
    /\ signin.ran /\ signin.existingUser # NullAuth /\ signin.passwordsMatch
    /\ resp.sent
    /\ signin.readUser.username \notin {Absent, signin.existingUser.username}
    /\ signin.readUser.uId \notin {Absent, signin.existingUser.uId}

\* C10: a session cookie written with a token is named 'session', lives 604800
\* seconds and is secure in every environment but 'development'.
C10_SessionCookie ==
    (resp.cookie.set /\ resp.cookie.value # NoToken) =>
        /\ resp.cookie.name = "session"
        /\ CookieLifetimeSeconds(resp.cookie) = 604800
        /\ (nodeEnv # "development" => resp.cookie.secure)


\* C11: whenever the database connection has been attempted, the server has been
\* constructed, or the server has been started, config.validateConfig has
\* completed and passed; so when validation fails, none of them has happened.
C11_ConfigFirst ==
    LET dbAttempted == dbConnects > 0 \/ dbState # "idle" \/ dbOnDisconnected
        serverBuilt == mainPc \in {"start", "startServer", "idle"}
        serverStarted == stack # <<>> \/ httpState # "none" \/ ioAttached
                         \/ pubClient # "none" \/ subClient # "none"
                         \/ startServerPc # "notStarted"
    IN  (dbAttempted \/ serverBuilt \/ serverStarted)
            => (configOk /\ mainPc # "loadConfig")

\* validation failed: the process has ended, with no database connection
\* attempted and no server started
C11_Witness ==
    /\ ~configOk /\ mainPc = "crashed" /\ exited
    /\ dbConnects = 0 /\ httpState = "none" /\ stack = <<>>


\* C12: a reconnect attempt (a call of connect after the first) is issued only
\* out of a backoff wait that followed the disconnect, never in the step of the
\* 'disconnected' event itself.
C12_ReconnectAfterBackoff ==
    [][(dbConnects > 0 /\ dbConnects' > dbConnects) => dbState = "backoff"]_vars


\* SignIn.read ran and did not find the user, or the password did not match
SignInFailed == signin.ran /\ (signin.existingUser = NullAuth \/ ~signin.passwordsMatch)

\* req.session as cookieSession read it from the request
ParsedSession ==
    [state |-> req.cookie, jwt |-> IF req.cookie = "valid" THEN ValidToken ELSE NoToken]

\* C13: when SignIn.read fails, req.session is what it was before, no token is
\* returned, no cookie is written and the response is not 201; a session cookie
\* with a token is written only when the user was found and the password matched.
C13_FailedSignInLeavesSession ==
    /\ SignInFailed =>
          /\ reqSession = ParsedSession
          /\ resp.token = NoToken
          /\ ~resp.cookie.set
          /\ resp.status # CREATED
    /\ (resp.cookie.set /\ resp.cookie.value # NoToken) =>
          (signin.ran /\ signin.existingUser # NullAuth /\ signin.passwordsMatch)

\* a sign-in with an unknown username, by a client that had a valid session,
\* was answered
C13_Witness ==
    /\ SignInFailed /\ signin.existingUser = NullAuth
    /\ req.cookie = "valid" /\ resp.sent

\* C14: the answer to a failed sign-in (error kind, status, message) is the one
\* every other failing sign-in gets, whether the username was unknown or the
\* password wrong.
C14_UniformFailure ==
    (SignInFailed /\ resp.sent) =>
        \A a \in AuthDocs \cup {NullAuth}, m \in BOOLEAN :
            LET other == SignInRead(a, m, NullUser)
            IN  other.threw =>
                    /\ logged.kind = other.error.kind
                    /\ resp.status = other.error.status
                    /\ resp.message = other.error.message

\* a sign-in with a known username and a wrong password was answered
C14_Witness ==
    /\ SignInFailed /\ signin.existingUser # NullAuth /\ ~signin.passwordsMatch
    /\ resp.sent /\ resp.status = BAD_REQUEST

\* the routes mounted ahead of the gate, and the event of reaching their handler
PublicPaths == { p \in Paths : p.mount = "/queues" \/ p.route \in {"signin", "signout"} }
HandlerEvent(path) ==
    CASE path.mount = "/queues" -> "handler:queues"
      [] path.route = "signin" -> "joiValidation"
      [] OTHER -> "handler:signout"
GateRan == "verifyUser:accept" \in Events \/ "verifyUser:reject" \in Events

\* C15: verifyUser runs only for requests under BASE_PATH that neither the
\* sign-in nor the sign-out router answered; a request routed to the dashboard,
\* to sign-in or to sign-out reaches its handler without verifyUser having run,
\* whatever its session.
C15_GateOnlyBeforeCurrentUser ==
    /\ GateRan => (req.path.mount = BASE_PATH /\ req.path.route \notin {"signin", "signout"})
    /\ (resp.sent /\ req.path \in PublicPaths /\ ~BodyRefused) =>
          (~GateRan /\ HandlerEvent(req.path) \in Events)

\* a sign-in without any session was handled
C15_Witness ==
    /\ resp.sent /\ req.path.route = "signin" /\ req.cookie = "none"
    /\ "handler:signin" \in Events
    /\ ~GateRan


====
